---- MODULE Spec2Model ----
(***************************************************************************)
(* The result viewer and exporters of the token analysis page:             *)
(*   - ResultsTable / renderValue (app/ResultsTable.tsx): a parsed JSON     *)
(*     value rendered as nested tables and lists;                          *)
(*   - flattenObject / convertToCSV / handleExportJson / handleExportCsv    *)
(*     (the page component): the same value exported as CSV and JSON.      *)
(*                                                                         *)
(* A JavaScript string is modelled as the sequence of its characters, each *)
(* a one-character TLA+ string, so that replacing, joining, quoting and     *)
(* stringifying are computed character by character.                       *)
(***************************************************************************)
EXTENDS Integers, Sequences, FiniteSets, TLC

VARIABLES
  data,      \* the parsed analysis result: the `data` prop and the exported value
  view,      \* the element ResultsTable returned last
  exported,  \* the last export: the file offered for download and, for a CSV,
             \* convertToCSV's flatData with each assignment made to it
  isLoading, \* the page's isLoading state
  progress,  \* the page's progress state
  error,     \* the page's error state: null or the message shown
  pc,        \* where the running handleSubmit call waits: "idle" when none runs
  progressInterval, \* the running call's interval handle (0: none)
  intervals, \* the live setInterval timers, each with its call's currentProgress
  request    \* the request of the last submit, as the network has settled it

viewVars == <<data, view, exported>>
submitVars == <<isLoading, progress, error, pc, progressInterval, intervals, request>>
vars == <<data, view, exported, isLoading, progress, error, pc, progressInterval,
          intervals, request>>

----------------------------------------------------------------------------
(* Bounds of the explored inputs.                                          *)

\* The largest number of nodes (scalars, arrays, objects) of an input value.
MaxSize == 4

\* The largest number of interval timers alive at once: a submit starts only
\* while fewer are alive.
MaxIntervals == 2

----------------------------------------------------------------------------
(* Strings.                                                                *)

DOCUMENTS == <<"_", "d", "o", "c", "u", "m", "e", "n", "t", "s">>
NA == <<"N", "/", "A">>
YES == <<"Y", "e", "s">>
NO == <<"N", "o">>
NULLTEXT == <<"n", "u", "l", "l">>
UNDEFINEDTEXT == <<"u", "n", "d", "e", "f", "i", "n", "e", "d">>
TRUETEXT == <<"t", "r", "u", "e">>
FALSETEXT == <<"f", "a", "l", "s", "e">>
OBJECTTEXT == <<"[", "o", "b", "j", "e", "c", "t", " ", "O", "b", "j", "e", "c", "t", "]">>
DigitChars == <<"0", "1", "2", "3", "4", "5", "6", "7", "8", "9">>

\* Array.prototype.join on strings: the parts with sep between them.
RECURSIVE Join(_, _)
Join(parts, sep) ==
  IF parts = <<>> THEN <<>>
  ELSE IF Len(parts) = 1 THEN parts[1]
  ELSE parts[1] \o sep \o Join(Tail(parts), sep)

\* String.prototype.replace with a global one-character pattern.
RECURSIVE ReplaceAll(_, _, _)
ReplaceAll(s, c, by) ==
  IF s = <<>> THEN <<>>
  ELSE (IF s[1] = c THEN by ELSE <<s[1]>>) \o ReplaceAll(Tail(s), c, by)

\* The decimal text of a natural number.
RECURSIVE NumToStr(_)
NumToStr(n) ==
  IF n < 10 THEN <<DigitChars[n + 1]>>
  ELSE NumToStr(n \div 10) \o <<DigitChars[(n % 10) + 1]>>

IsDigit(c) == \E i \in 1..10 : DigitChars[i] = c

DigitValue(c) == (CHOOSE i \in 1..10 : DigitChars[i] = c) - 1

RECURSIVE StrToNum(_)
StrToNum(s) ==
  IF s = <<>> THEN 0
  ELSE 10 * StrToNum(SubSeq(s, 1, Len(s) - 1)) + DigitValue(s[Len(s)])

----------------------------------------------------------------------------
(* JavaScript values as they come out of JSON.parse, plus undefined.       *)

Undefined == [t |-> "undefined"]
Null == [t |-> "null"]
Bool(b) == [t |-> "boolean", b |-> b]
Num(n) == [t |-> "number", n |-> n]
Str(s) == [t |-> "string", s |-> s]
Arr(items) == [t |-> "array", items |-> items]
\* An object is the sequence of its own enumerable properties in property order.
Obj(props) == [t |-> "object", props |-> props]
Prop(key, val) == [key |-> key, val |-> val]

\* typeof value === 'object' && value !== null
IsObjectLike(v) == v.t \in {"array", "object"}

\* typeof x === "object" && x !== null && !Array.isArray(x)
IsPlainObject(v) == v.t = "object"

\* ToBoolean: what `!value` and `if (value)` test.
Truthy(v) ==
  CASE v.t = "undefined" -> FALSE
    [] v.t = "null" -> FALSE
    [] v.t = "boolean" -> v.b
    [] v.t = "number" -> v.n # 0
    [] v.t = "string" -> v.s # <<>>
    [] OTHER -> TRUE

\* A canonical array index: such keys come first, in ascending numeric order,
\* in the property order of an object (the 2^32 - 2 limit is out of reach here).
IsArrayIndex(key) ==
  /\ key # <<>>
  /\ \A i \in 1..Len(key) : IsDigit(key[i])
  /\ (Len(key) = 1 \/ key[1] # "0")

KeysOf(props) == [i \in 1..Len(props) |-> props[i].key]

HasKey(props, key) == \E i \in 1..Len(props) : props[i].key = key

\* obj[key] of an ordinary object: undefined when the key is absent.
GetProp(props, key) ==
  IF HasKey(props, key)
  THEN props[CHOOSE i \in 1..Len(props) : props[i].key = key].val
  ELSE Undefined

\* delete obj[key]
DeleteProp(props, key) == SelectSeq(props, LAMBDA p : p.key # key)

\* The position a new key takes in the property order.
InsertAt(props, key) ==
  IF IsArrayIndex(key)
  THEN 1 + Cardinality({i \in 1..Len(props) :
                          /\ IsArrayIndex(props[i].key)
                          /\ StrToNum(props[i].key) < StrToNum(key)})
  ELSE Len(props) + 1

\* obj[key] = val: an existing key keeps its place and takes the new value.
SetProp(props, key, val) ==
  IF HasKey(props, key)
  THEN [i \in 1..Len(props) |->
          IF props[i].key = key THEN Prop(key, val) ELSE props[i]]
  ELSE LET at == InsertAt(props, key)
       IN SubSeq(props, 1, at - 1) \o <<Prop(key, val)>> \o SubSeq(props, at, Len(props))

\* The own enumerable string-keyed properties of a value, in property order:
\* what Object.entries, for-in (with hasOwnProperty) and object spread visit.
OwnProps(v) ==
  CASE v.t = "object" -> v.props
    [] v.t = "array" ->
         [i \in 1..Len(v.items) |-> Prop(NumToStr(i - 1), v.items[i])]
    [] v.t = "string" ->
         [i \in 1..Len(v.s) |-> Prop(NumToStr(i - 1), Str(<<v.s[i]>>))]
    [] OTHER -> <<>>

\* String(value)
RECURSIVE ToStr(_)
ToStr(v) ==
  CASE v.t = "undefined" -> UNDEFINEDTEXT
    [] v.t = "null" -> NULLTEXT
    [] v.t = "boolean" -> IF v.b THEN TRUETEXT ELSE FALSETEXT
    [] v.t = "number" -> NumToStr(v.n)
    [] v.t = "string" -> v.s
    [] v.t = "array" ->
         Join([i \in 1..Len(v.items) |->
                 IF v.items[i].t \in {"null", "undefined"} THEN <<>>
                 ELSE ToStr(v.items[i])], <<",">>)
    [] OTHER -> OBJECTTEXT

----------------------------------------------------------------------------
(* JSON.stringify(value, null, gap).                                       *)

QUOTE == "\""
BACKSLASH == "\\"
NEWLINE == "\n"

\* An escape that escapes the backslash of its own escapes once more.
JsonEscapeTwice(c) ==
  CASE c = QUOTE -> <<BACKSLASH, QUOTE>>
    [] c = BACKSLASH -> <<BACKSLASH, BACKSLASH>>
    [] c = NEWLINE -> <<BACKSLASH, BACKSLASH, "n">>
    [] OTHER -> <<c>>

\* The JSON escape of one character.
JsonEscape(c) ==
  CASE c = QUOTE -> <<BACKSLASH, QUOTE>>
    [] c = BACKSLASH -> <<BACKSLASH, BACKSLASH>>
    [] c = NEWLINE -> <<BACKSLASH, "n">>
    [] OTHER -> <<c>>

RECURSIVE JsonEscapeAll(_)
JsonEscapeAll(s) ==
  IF s = <<>> THEN <<>> ELSE JsonEscape(s[1]) \o JsonEscapeAll(Tail(s))

JsonQuote(s) == <<QUOTE>> \o JsonEscapeAll(s) \o <<QUOTE>>

\* gap is the indentation unit (empty: the compact form), cur the indentation
\* of the enclosing line.
RECURSIVE JsonText(_, _, _)
JsonText(v, gap, cur) ==
  LET inner == cur \o gap
      open(c) == IF gap = <<>> THEN <<c>> ELSE <<c, NEWLINE>> \o inner
      close(c) == IF gap = <<>> THEN <<c>> ELSE <<NEWLINE>> \o cur \o <<c>>
      sep == IF gap = <<>> THEN <<",">> ELSE <<",", NEWLINE>> \o inner
      colon == IF gap = <<>> THEN <<":">> ELSE <<":", " ">>
  IN CASE v.t = "null" -> NULLTEXT
       [] v.t = "boolean" -> IF v.b THEN TRUETEXT ELSE FALSETEXT
       [] v.t = "number" -> NumToStr(v.n)
       [] v.t = "string" -> JsonQuote(v.s)
       [] v.t = "array" ->
            IF v.items = <<>> THEN <<"[", "]">>
            ELSE open("[")
                 \o Join([i \in 1..Len(v.items) |-> JsonText(v.items[i], gap, inner)], sep)
                 \o close("]")
       [] v.t = "object" ->
            IF v.props = <<>> THEN <<"{", "}">>
            ELSE open("{")
                 \o Join([i \in 1..Len(v.props) |->
                            JsonQuote(v.props[i].key) \o colon
                            \o JsonText(v.props[i].val, gap, inner)], sep)
                 \o close("}")

\* JSON.stringify(item)
JsonCompact(v) == JsonText(v, <<>>, <<>>)

\* JSON.stringify(analysisResult, null, 2)
JsonPretty(v) == JsonText(v, <<" ", " ">>, <<>>)

----------------------------------------------------------------------------
(* ResultsTable.tsx: the rendered elements.                                *)

\* A text child (span = FALSE) or the italic <span> of the N/A marker.
Scalar(text, span) == [node |-> "Scalar", text |-> text, span |-> span]
\* <ul> with one <li> per item.
List(items) == [node |-> "List", items |-> items]
\* <table> with one <tr> per row: the React key, the label cell, the value cell.
Table(rows) == [node |-> "Table", rows |-> rows]
Row(key, label, cell) == [key |-> key, label |-> label, cell |-> cell]
\* <p>No data to display.</p>
NoData == [node |-> "NoData"]
\* Nothing rendered yet.
NotRendered == [node |-> "none"]

\* A replace with a string pattern: only the first underscore becomes a space.
HumanizeFirstOnly(key) ==
  IF \E i \in 1..Len(key) : key[i] = "_"
  THEN LET at == CHOOSE i \in 1..Len(key) :
                   key[i] = "_" /\ \A j \in 1..(i - 1) : key[j] # "_"
       IN SubSeq(key, 1, at - 1) \o <<" ">> \o SubSeq(key, at + 1, Len(key))
  ELSE key

\* key.replace(/_/g, ' ')  (the `capitalize` class is styling only)
Humanize(key) == ReplaceAll(key, "_", <<" ">>)

RECURSIVE renderValue(_)
renderValue(value) ==
  IF IsObjectLike(value)
  THEN IF value.t = "array"
       THEN List([i \in 1..Len(value.items) |-> renderValue(value.items[i])])
       ELSE Table([i \in 1..Len(value.props) |->
                     Row(value.props[i].key,
                         Humanize(value.props[i].key),
                         renderValue(value.props[i].val))])
  ELSE IF value.t \in {"null", "undefined"} THEN Scalar(NA, TRUE)
  ELSE IF value.t = "boolean" THEN Scalar(IF value.b THEN YES ELSE NO, FALSE)
  ELSE Scalar(ToStr(value), FALSE)

\* const displayData = { ...data }: a new object holding data's own properties.
SpreadCopy(v) == OwnProps(v)

\* The component deleting the reserved key from the data prop itself.
ResultsTableInPlace(d) ==
  IF ~Truthy(d)
  THEN [element |-> NoData, data |-> d]
  ELSE LET copied == SpreadCopy(d)
           displayData == IF Truthy(GetProp(copied, DOCUMENTS))
                          THEN DeleteProp(copied, DOCUMENTS)
                          ELSE copied
       IN [element |-> Table([i \in 1..Len(displayData) |->
                                Row(displayData[i].key,
                                    Humanize(displayData[i].key),
                                    renderValue(displayData[i].val))]),
           data |-> IF d.t = "object" THEN Obj(displayData) ELSE d]

\* One call of the component: the element it returns and the data prop as the
\* call leaves it (the delete is applied to displayData, a separate object).
ResultsTable(d) ==
  IF ~Truthy(d)
  THEN [element |-> NoData, data |-> d]
  ELSE LET copied == SpreadCopy(d)
           displayData == IF Truthy(GetProp(copied, DOCUMENTS))
                          THEN DeleteProp(copied, DOCUMENTS)
                          ELSE copied
       IN [element |-> Table([i \in 1..Len(displayData) |->
                                Row(displayData[i].key,
                                    Humanize(displayData[i].key),
                                    renderValue(displayData[i].val))]),
           data |-> d]

----------------------------------------------------------------------------
(* The page component: flattenObject, convertToCSV, the export handlers.   *)

\* res as the first call gets it (`res: any = {}`), with the record of the
\* assignments made to it so far.
EmptyFlat == [res |-> <<>>, log |-> <<>>]

HASOWNPROPERTY ==
  <<"h", "a", "s", "O", "w", "n", "P", "r", "o", "p", "e", "r", "t", "y">>

\* The TypeError of calling a value that is no function, on its way out of
\* every enclosing call.
Thrown == [thrown |-> "TypeError"]

\* res[newKey] = val
Assign(acc, newKey, val) ==
  [res |-> SetProp(acc.res, newKey, val),
   log |-> Append(acc.log, Prop(newKey, val))]

\* The items joined without the JSON.stringify of the object items.
JoinItemsPlain(items) ==
  Join([i \in 1..Len(items) |->
          IF items[i].t = "null" THEN <<>> ELSE ToStr(items[i])], <<";", " ">>)

\* obj[key].map(item => typeof item === 'object' ? JSON.stringify(item) : item).join("; ")
JoinItems(items) ==
  Join([i \in 1..Len(items) |->
          IF items[i].t \in {"null", "array", "object"}
          THEN JsonCompact(items[i])
          ELSE ToStr(items[i])], <<";", " ">>)

RECURSIVE flattenObject(_, _, _)
RECURSIVE FlattenFrom(_, _, _, _)
\* The for-in loop from its i-th key on. obj.hasOwnProperty is looked up on
\* obj first: an own property of that name holds a JSON value, and calling it
\* throws.
FlattenFrom(props, i, prefix, acc) ==
  IF acc = Thrown \/ i > Len(props) THEN acc
  ELSE IF HasKey(props, HASOWNPROPERTY) THEN Thrown
  ELSE LET key == props[i].key
           val == props[i].val
           newKey == IF prefix # <<>> THEN prefix \o <<".">> \o key ELSE key
           next == IF IsPlainObject(val) THEN flattenObject(val, newKey, acc)
                   ELSE IF val.t = "array"
                        THEN Assign(acc, newKey, Str(JoinItems(val.items)))
                   ELSE Assign(acc, newKey, val)
       IN FlattenFrom(props, i + 1, prefix, next)

\* A flattener that leaves the reserved key out, as the table does.
flattenObjectVisible(obj, prefix, acc) ==
  FlattenFrom(DeleteProp(OwnProps(obj), DOCUMENTS), 1, prefix, acc)

flattenObject(obj, prefix, acc) == FlattenFrom(OwnProps(obj), 1, prefix, acc)

\* A field written with the table's texts: N/A, Yes, No.
CsvFieldAsRendered(value) ==
  <<QUOTE>> \o ReplaceAll(renderValue(value).text, QUOTE, <<QUOTE, QUOTE>>) \o <<QUOTE>>

\* A field wrapped in quotes with the quotes inside it left single.
CsvFieldUndoubled(value) == <<QUOTE>> \o ToStr(value) \o <<QUOTE>>

\* `"${strValue.replace(/"/g, '""')}"`
CsvField(value) ==
  <<QUOTE>> \o ReplaceAll(ToStr(value), QUOTE, <<QUOTE, QUOTE>>) \o <<QUOTE>>

\* The text returned, or Thrown when flattenObject threw.
convertToCSV(jsonData) ==
  LET flatData == flattenObject(jsonData, <<>>, EmptyFlat)
      flat == flatData.res
      headers == Join(KeysOf(flat), <<",">>)
      values == Join([i \in 1..Len(flat) |-> CsvField(flat[i].val)], <<",">>)
  IN IF flatData = Thrown THEN Thrown ELSE headers \o <<NEWLINE>> \o values

\* encodeURIComponent of one character: everything but letters, digits and
\* - _ . ! ~ * ' ( ) becomes its %XX escape.
EncodeChar(c) ==
  CASE c = NEWLINE -> <<"%", "0", "A">>
    [] c = " " -> <<"%", "2", "0">>
    [] c = QUOTE -> <<"%", "2", "2">>
    [] c = "," -> <<"%", "2", "C">>
    [] c = "/" -> <<"%", "2", "F">>
    [] c = ":" -> <<"%", "3", "A">>
    [] c = ";" -> <<"%", "3", "B">>
    [] c = "[" -> <<"%", "5", "B">>
    [] c = BACKSLASH -> <<"%", "5", "C">>
    [] c = "]" -> <<"%", "5", "D">>
    [] c = "{" -> <<"%", "7", "B">>
    [] c = "}" -> <<"%", "7", "D">>
    [] OTHER -> <<c>>

RECURSIVE encodeURIComponent(_)
encodeURIComponent(s) ==
  IF s = <<>> THEN <<>> ELSE EncodeChar(s[1]) \o encodeURIComponent(Tail(s))

\* "data:text/json;charset=utf-8,"
JsonUriHead ==
  <<"d", "a", "t", "a", ":", "t", "e", "x", "t", "/", "j", "s", "o", "n", ";",
    "c", "h", "a", "r", "s", "e", "t", "=", "u", "t", "f", "-", "8", ",">>

NotExported == [kind |-> "none"]
\* The handler ended by an exception nothing catches: no file is offered.
Uncaught == [kind |-> "uncaught"]

----------------------------------------------------------------------------
(* The exported JSON file read back: the browser saves the payload of the  *)
(* data URL percent-decoded, and JSON.parse (response.json() on the page)  *)
(* reads a JSON text.                                                      *)

\* The characters encodeURIComponent escapes, by their %XX code.
DecodeEscape(hi, lo) ==
  LET code == <<hi, lo>>
  IN CASE code = <<"0", "A">> -> NEWLINE
       [] code = <<"2", "0">> -> " "
       [] code = <<"2", "2">> -> QUOTE
       [] code = <<"2", "C">> -> ","
       [] code = <<"2", "F">> -> "/"
       [] code = <<"3", "A">> -> ":"
       [] code = <<"3", "B">> -> ";"
       [] code = <<"5", "B">> -> "["
       [] code = <<"5", "C">> -> BACKSLASH
       [] code = <<"5", "D">> -> "]"
       [] code = <<"7", "B">> -> "{"
       [] code = <<"7", "D">> -> "}"
       [] OTHER -> "?"

\* Percent-decoding from position i on.
RECURSIVE PercentDecode(_, _)
PercentDecode(s, i) ==
  IF i > Len(s) THEN <<>>
  ELSE IF s[i] = "%" /\ i + 2 <= Len(s)
       THEN <<DecodeEscape(s[i + 1], s[i + 2])>> \o PercentDecode(s, i + 3)
       ELSE <<s[i]>> \o PercentDecode(s, i + 1)

\* The text of the file a data URL downloads.
FileText(href) == PercentDecode(href, Len(JsonUriHead) + 1)

\* JSON.parse: each reader takes the text and a position and gives the value
\* read with the position after it.
IsJsonSpace(c) == c \in {" ", NEWLINE}

RECURSIVE SkipSpace(_, _)
SkipSpace(s, i) ==
  IF i <= Len(s) /\ IsJsonSpace(s[i]) THEN SkipSpace(s, i + 1) ELSE i

\* The character an escape sequence \c stands for.
Unescape(c) == IF c = "n" THEN NEWLINE ELSE c

\* The characters of a string from position i, just after its opening quote.
RECURSIVE ReadChars(_, _, _)
ReadChars(s, i, acc) ==
  IF i > Len(s) THEN [v |-> acc, at |-> i]
  ELSE IF s[i] = QUOTE THEN [v |-> acc, at |-> i + 1]
  ELSE IF s[i] = BACKSLASH /\ i < Len(s)
       THEN ReadChars(s, i + 2, Append(acc, Unescape(s[i + 1])))
  ELSE ReadChars(s, i + 1, Append(acc, s[i]))

RECURSIVE ReadDigits(_, _)
ReadDigits(s, i) ==
  IF i <= Len(s) /\ IsDigit(s[i]) THEN ReadDigits(s, i + 1) ELSE i

RECURSIVE ParseValue(_, _)
RECURSIVE ParseMembers(_, _, _)
RECURSIVE ParseItems(_, _, _)

\* The members of an object from position i, at a key's opening quote: each
\* member is defined on the object in text order.
ParseMembers(s, i, props) ==
  LET key == ReadChars(s, i + 1, <<>>)
      colon == SkipSpace(s, key.at)
      val == ParseValue(s, colon + 1)
      after == SkipSpace(s, val.at)
      added == SetProp(props, key.v, val.v)
  IN IF after <= Len(s) /\ s[after] = ","
     THEN ParseMembers(s, SkipSpace(s, after + 1), added)
     ELSE [v |-> Obj(added), at |-> after + 1]

\* The items of an array from position i, at an item.
ParseItems(s, i, items) ==
  LET val == ParseValue(s, i)
      after == SkipSpace(s, val.at)
      added == Append(items, val.v)
  IN IF after <= Len(s) /\ s[after] = ","
     THEN ParseItems(s, after + 1, added)
     ELSE [v |-> Arr(added), at |-> after + 1]

ParseValue(s, i) ==
  LET j == SkipSpace(s, i)
  IN IF j > Len(s) THEN [v |-> Undefined, at |-> j]
     ELSE CASE s[j] = "{" ->
                 LET k == SkipSpace(s, j + 1)
                 IN IF k <= Len(s) /\ s[k] = "}"
                    THEN [v |-> Obj(<<>>), at |-> k + 1]
                    ELSE ParseMembers(s, k, <<>>)
            [] s[j] = "[" ->
                 LET k == SkipSpace(s, j + 1)
                 IN IF k <= Len(s) /\ s[k] = "]"
                    THEN [v |-> Arr(<<>>), at |-> k + 1]
                    ELSE ParseItems(s, k, <<>>)
            [] s[j] = QUOTE ->
                 LET str == ReadChars(s, j + 1, <<>>)
                 IN [v |-> Str(str.v), at |-> str.at]
            [] s[j] = "n" -> [v |-> Null, at |-> j + Len(NULLTEXT)]
            [] s[j] = "t" -> [v |-> Bool(TRUE), at |-> j + Len(TRUETEXT)]
            [] s[j] = "f" -> [v |-> Bool(FALSE), at |-> j + Len(FALSETEXT)]
            [] IsDigit(s[j]) ->
                 LET end == ReadDigits(s, j)
                 IN [v |-> Num(StrToNum(SubSeq(s, j, end - 1))), at |-> end]
            [] OTHER -> [v |-> Undefined, at |-> j + 1]

JsonParse(text) == ParseValue(text, 1).v

----------------------------------------------------------------------------
(* The page component: handleSubmit, the request it sends and the interval *)
(* timer that simulates its progress.                                      *)

\* "An unexpected error occurred."
UNEXPECTED ==
  <<"A", "n", " ", "u", "n", "e", "x", "p", "e", "c", "t", "e", "d", " ",
    "e", "r", "r", "o", "r", " ", "o", "c", "c", "u", "r", "r", "e", "d",
    ".">>
\* "HTTP error! status: "
HTTPERROR ==
  <<"H", "T", "T", "P", " ", "e", "r", "r", "o", "r", "!", " ", "s", "t",
    "a", "t", "u", "s", ":", " ">>
\* The message of the TypeError a rejected fetch carries.
FAILEDTOFETCH ==
  <<"F", "a", "i", "l", "e", "d", " ", "t", "o", " ", "f", "e", "t", "c",
    "h">>
\* The message of the SyntaxError of a body that is no JSON text.
UNEXPECTEDEND ==
  <<"U", "n", "e", "x", "p", "e", "c", "t", "e", "d", " ", "e", "n", "d",
    " ", "o", "f", " ", "J", "S", "O", "N", " ", "i", "n", "p", "u", "t">>
\* The message of the TypeError of reading a property of null.
CANNOTREAD ==
  <<"C", "a", "n", "n", "o", "t", " ", "r", "e", "a", "d", " ", "p", "r",
    "o", "p", "e", "r", "t", "i", "e", "s", " ", "o", "f", " ", "n", "u",
    "l", "l", " ", "(", "r", "e", "a", "d", "i", "n", "g", " ", "'", "d",
    "e", "t", "a", "i", "l", "'", ")">>
DETAIL == <<"d", "e", "t", "a", "i", "l">>

\* No submit was made yet.
NoRequest == [state |-> "none"]
\* fetch was called and has not settled.
Pending == [state |-> "pending"]
\* fetch rejected: no response arrived.
Rejected == [state |-> "rejected"]
\* fetch resolved with a response; body is "unread", "read" (json holds the
\* parsed value) or "unreadable" (response.json() rejected).
Response(ok, status, body, json) ==
  [state |-> "response", ok |-> ok, status |-> status, body |-> body, json |-> json]

\* The statuses of the responses that are not ok.
Statuses == {500}
\* The parsed bodies of the responses that are not ok.
ErrorBodies ==
  {Null, Obj(<<>>), Obj(<<Prop(DETAIL, Str(<<"x">>))>>), Obj(<<Prop(DETAIL, Arr(<<>>))>>)}
\* The parsed bodies of the ok responses.
ResponseBodies == {Null, Obj(<<>>), Obj(<<Prop(<<"a">>, Num(1))>>)}

\* setError(err.message || "An unexpected error occurred.")
Caught(message) == Str(IF message # <<>> THEN message ELSE UNEXPECTED)

\* The message of what the not-ok branch throws: the Error made from
\* errorData.detail or, when that is falsy, from the status; the TypeError
\* when errorData is null.
ThrownMessage(errorData, status) ==
  IF errorData.t = "null" THEN CANNOTREAD
  ELSE LET detail == IF errorData.t = "object"
                     THEN GetProp(errorData.props, DETAIL) ELSE Undefined
       IN IF Truthy(detail) THEN ToStr(detail) ELSE HTTPERROR \o NumToStr(status)

\* The handle setInterval returns: one no live timer has.
NewHandle ==
  CHOOSE id \in 1..MaxIntervals :
    /\ \A t \in intervals : t.id # id
    /\ \A other \in 1..(id - 1) : \E t \in intervals : t.id = other

\* clearInterval(handle)
clearInterval(handle) == {t \in intervals : t.id # handle}

----------------------------------------------------------------------------
(* The explored inputs: every value of a bounded number of nodes over      *)
(* three small alphabets:                                                  *)
(*   - scalars: the reserved key, a key with underscores, and every kind   *)
(*     of scalar, falsy and truthy (one node less than the others);        *)
(*   - shapes: the same keys over two scalars, for nesting and arrays;     *)
(*   - paths: objects whose keys hold a dot, are empty or are an array     *)
(*     index, over two scalars and the empty array;                        *)
(*   - texts: keys and strings holding the characters the CSV and JSON     *)
(*     texts give a meaning to: quote, comma, newline, backslash (one node *)
(*     less than the others).                                              *)

UNDERSCORED == <<"_", "x", "_">>
RenderKeys == {DOCUMENTS, UNDERSCORED}
ScalarLeaves ==
  {Null, Bool(TRUE), Bool(FALSE), Num(0), Str(<<>>), Str(<<"x">>),
   Arr(<<>>), Obj(<<>>)}
ShapeLeaves == {Null, Str(<<"x">>), Arr(<<>>), Obj(<<>>)}
PathKeys == {<<"a">>, <<"1">>, <<"a", ".", "1">>, <<>>}
PathLeaves == {Num(1), Str(<<"x">>), Arr(<<>>)}
HESAID ==
  <<"H", "e", " ", "s", "a", "i", "d", " ", QUOTE, "h", "i", QUOTE, ",", " ", "o", "k">>
TextKeys == {<<"a">>, <<"a", NEWLINE, "b">>, <<QUOTE, ",">>, HASOWNPROPERTY}
TextLeaves == {Str(HESAID), Str(<<BACKSLASH, NEWLINE>>), Num(10)}

\* The property order JavaScript gives an object: array-index keys first, in
\* ascending order, then the other keys in insertion order; keys are distinct.
JsOrdered(keys) ==
  \A i, j \in 1..Len(keys) :
    i < j => /\ keys[i] # keys[j]
             /\ IsArrayIndex(keys[j]) =>
                  /\ IsArrayIndex(keys[i])
                  /\ StrToNum(keys[i]) < StrToNum(keys[j])

\* keyed[len]: the sequences of len distinct keys an object can hold, in
\* property order, for len up to n.
RECURSIVE KeyTable(_, _)
KeyTable(keys, n) ==
  IF n = 0 THEN <<>>
  ELSE Append(KeyTable(keys, n - 1), {q \in [1..n -> keys] : JsOrdered(q)})

RenderKeySeqs == KeyTable(RenderKeys, MaxSize - 1)
PathKeySeqs == KeyTable(PathKeys, MaxSize - 1)
TextKeySeqs == KeyTable(TextKeys, MaxSize - 2)

\* tab.vals[k]: the values of exactly k nodes; tab.forests[m + 1]: the
\* sequences of values of m nodes in all. A value of n nodes is a leaf, or
\* an object (an array too, if arrays) over a sequence of n - 1 nodes.
RECURSIVE SizeTable(_, _, _, _)
SizeTable(keyed, leaves, arrays, n) ==
  IF n = 1 THEN [vals |-> <<leaves>>, forests |-> <<{<<>>}>>]
  ELSE LET tab == SizeTable(keyed, leaves, arrays, n - 1)
           forests == UNION {{<<v>> \o rest : v \in tab.vals[k],
                                              rest \in tab.forests[n - k]} :
                             k \in 1..(n - 1)}
           objects == UNION {{Obj([i \in 1..Len(f) |-> Prop(ks[i], f[i])]) :
                                ks \in keyed[Len(f)]} : f \in forests}
       IN [vals |-> Append(tab.vals,
                           objects \cup (IF arrays THEN {Arr(f) : f \in forests} ELSE {})),
           forests |-> Append(tab.forests, forests)]

\* The tables of the values smaller than the largest explored ones.
ScalarTable == SizeTable(RenderKeySeqs, ScalarLeaves, TRUE, MaxSize - 2)
ShapeTable == SizeTable(RenderKeySeqs, ShapeLeaves, TRUE, MaxSize - 1)
PathTable == SizeTable(PathKeySeqs, PathLeaves, FALSE, MaxSize - 1)
TextTable == SizeTable(TextKeySeqs, TextLeaves, TRUE, MaxSize - 2)

\* v is a value of at most n nodes, tab being the table of n - 1: one of the
\* table's, or an object (an array) over a sequence of n - 1 nodes.
UpTo(v, tab, keyed, arrays, n) ==
  \/ \E k \in 1..(n - 1) : v \in tab.vals[k]
  \/ \E k \in 1..(n - 1) : \E first \in tab.vals[k] : \E rest \in tab.forests[n - k] :
       \/ arrays /\ v = Arr(<<first>> \o rest)
       \/ \E ks \in keyed[1 + Len(rest)] :
            v = Obj([i \in 1..(1 + Len(rest)) |-> Prop(ks[i], (<<first>> \o rest)[i])])

----------------------------------------------------------------------------
(* The state machine: a value is handed to the page, then rendered and     *)
(* exported in any order, any number of times.                             *)

Init ==
  /\ \/ data = Undefined
     \/ UpTo(data, ScalarTable, RenderKeySeqs, TRUE, MaxSize - 1)
     \/ UpTo(data, ShapeTable, RenderKeySeqs, TRUE, MaxSize)
     \/ UpTo(data, PathTable, PathKeySeqs, FALSE, MaxSize)
     \/ UpTo(data, TextTable, TextKeySeqs, TRUE, MaxSize - 1)
  /\ view = NotRendered
  /\ exported = NotExported
  /\ isLoading = FALSE
  /\ progress = 0
  /\ error = Null
  /\ pc = "idle"
  /\ progressInterval = 0
  /\ intervals = {}
  /\ request = NoRequest

\* <ResultsTable data={...} /> is rendered.
Render ==
  /\ view' = ResultsTable(data).element
  /\ data' = ResultsTable(data).data
  /\ UNCHANGED exported
  /\ UNCHANGED submitVars

\* The link's href; the download's file name comes from the form fields.
handleExportJson ==
  IF ~Truthy(data)
  THEN UNCHANGED vars
  ELSE /\ exported' = [kind |-> "json",
                       href |-> JsonUriHead \o encodeURIComponent(JsonPretty(data))]
       /\ UNCHANGED <<data, view>>
       /\ UNCHANGED submitVars

\* The Blob's text, with convertToCSV's flatData and the assignments to it;
\* when flattenObject throws, convertToCSV and the handler end with it.
handleExportCsv ==
  IF ~Truthy(data)
  THEN UNCHANGED vars
  ELSE /\ exported' = IF flattenObject(data, <<>>, EmptyFlat) = Thrown
                      THEN Uncaught
                      ELSE [kind |-> "csv",
                            text |-> convertToCSV(data),
                            flatData |-> flattenObject(data, <<>>, EmptyFlat).res,
                            log |-> flattenObject(data, <<>>, EmptyFlat).log]
       /\ UNCHANGED <<data, view>>
       /\ UNCHANGED submitVars

Next == Render \/ handleExportJson \/ handleExportCsv

Spec == Init /\ [][Next]_vars

----------------------------------------------------------------------------
(* The submit state machine: the form is submitted, the interval timers    *)
(* tick, the network settles the request and the body of its response.     *)
(* Each action is one run of the page's code between two awaits.           *)

\* The page as it is first rendered: useState's initial values.
SubmitInit ==
  /\ data = Null
  /\ view = NotRendered
  /\ exported = NotExported
  /\ isLoading = FALSE
  /\ progress = 0
  /\ error = Null
  /\ pc = "idle"
  /\ progressInterval = 0
  /\ intervals = {}
  /\ request = NoRequest

\* The `finally` block, after which the call has returned.
Finally ==
  /\ isLoading' = FALSE
  /\ progress' = 0
  /\ pc' = "idle"
  /\ progressInterval' = 0

\* A submit that leaves the message of the submit before it in place.
handleSubmitKeepsError ==
  /\ ~isLoading
  /\ pc = "idle"
  /\ Cardinality(intervals) < MaxIntervals
  /\ isLoading' = TRUE
  /\ data' = Null
  /\ progress' = 0
  /\ progressInterval' = NewHandle
  /\ intervals' = intervals \cup {[id |-> NewHandle, currentProgress |-> 0]}
  /\ request' = Pending
  /\ pc' = "fetch"
  /\ UNCHANGED <<error, view, exported>>

\* The form's submit event, which the button lets through only while
\* isLoading is false: the call runs up to `await fetch(...)`.
handleSubmit ==
  /\ ~isLoading
  /\ pc = "idle"
  /\ Cardinality(intervals) < MaxIntervals
  /\ isLoading' = TRUE
  /\ error' = Null
  /\ data' = Null
  /\ progress' = 0
  /\ progressInterval' = NewHandle
  /\ intervals' = intervals \cup {[id |-> NewHandle, currentProgress |-> 0]}
  /\ request' = Pending
  /\ pc' = "fetch"
  /\ UNCHANGED <<view, exported>>

\* The callback of a live interval timer runs.
progressTick ==
  \E t \in intervals :
    LET currentProgress == t.currentProgress + 10
    IN /\ IF currentProgress <= 100
          THEN /\ progress' = currentProgress
               /\ intervals' = (intervals \ {t})
                                  \cup {[id |-> t.id, currentProgress |-> currentProgress]}
          ELSE /\ intervals' = clearInterval(t.id)
               /\ UNCHANGED progress
       /\ UNCHANGED <<isLoading, error, pc, progressInterval, request>>
       /\ UNCHANGED viewVars

\* fetch resolves with a response: the call runs on to `await response.json()`
\* of the branch the response's ok selects.
fetchResolves ==
  /\ pc = "fetch"
  /\ \E ok \in BOOLEAN : \E status \in (IF ok THEN {200} ELSE Statuses) :
       /\ request' = Response(ok, status, "unread", Undefined)
       /\ pc' = IF ok THEN "body" ELSE "errorBody"
  /\ intervals' = clearInterval(progressInterval)
  /\ progress' = 100
  /\ UNCHANGED <<isLoading, error, progressInterval>>
  /\ UNCHANGED viewVars

\* A rejected fetch whose call never reaches its `finally`.
fetchRejectsAndHangs ==
  /\ pc = "fetch"
  /\ request' = Rejected
  /\ error' = Caught(FAILEDTOFETCH)
  /\ pc' = "idle"
  /\ UNCHANGED <<isLoading, progress, progressInterval, intervals>>
  /\ UNCHANGED viewVars

\* fetch rejects: the call jumps to `catch`, then `finally`.
fetchRejects ==
  /\ pc = "fetch"
  /\ request' = Rejected
  /\ error' = Caught(FAILEDTOFETCH)
  /\ Finally
  /\ UNCHANGED intervals
  /\ UNCHANGED viewVars

\* The body of a response that is not ok is parsed: the call throws the
\* Error of its detail or status, catches it, and ends.
errorBodyParsed ==
  /\ pc = "errorBody"
  /\ \E errorData \in ErrorBodies :
       /\ request' = Response(FALSE, request.status, "read", errorData)
       /\ error' = Caught(ThrownMessage(errorData, request.status))
  /\ Finally
  /\ UNCHANGED intervals
  /\ UNCHANGED viewVars

\* The body of a response that is not ok cannot be parsed.
errorBodyFails ==
  /\ pc = "errorBody"
  /\ request' = Response(FALSE, request.status, "unreadable", Undefined)
  /\ error' = Caught(UNEXPECTEDEND)
  /\ Finally
  /\ UNCHANGED intervals
  /\ UNCHANGED viewVars

\* The body of an ok response is parsed: setAnalysisResult(data), and the
\* call ends.
bodyParsed ==
  /\ pc = "body"
  /\ \E body \in ResponseBodies :
       /\ request' = Response(TRUE, request.status, "read", body)
       /\ data' = body
  /\ Finally
  /\ UNCHANGED <<error, intervals, view, exported>>

\* The body of an ok response cannot be parsed.
bodyFails ==
  /\ pc = "body"
  /\ request' = Response(TRUE, request.status, "unreadable", Undefined)
  /\ error' = Caught(UNEXPECTEDEND)
  /\ Finally
  /\ UNCHANGED intervals
  /\ UNCHANGED viewVars

SubmitNext ==
  \/ handleSubmit
  \/ progressTick
  \/ fetchResolves
  \/ fetchRejects
  \/ errorBodyParsed
  \/ errorBodyFails
  \/ bodyParsed
  \/ bodyFails

SubmitSpec == SubmitInit /\ [][SubmitNext]_vars

\* The network settles every request and every body it is asked for.
FairSubmitSpec ==
  /\ SubmitSpec
  /\ WF_vars(fetchResolves \/ fetchRejects)
  /\ WF_vars(errorBodyParsed \/ errorBodyFails)
  /\ WF_vars(bodyParsed \/ bodyFails)

----------------------------------------------------------------------------
(* What the claims speak of, stated apart from the code's own operators.   *)

Rendered == view # NotRendered
CsvExported == exported.kind = "csv"

\* label is key with every underscore replaced by a space.
Humanized(key, label) ==
  /\ Len(label) = Len(key)
  /\ \A i \in 1..Len(key) : label[i] = (IF key[i] = "_" THEN " " ELSE key[i])

\* rows holds exactly one row per property, in the properties' order.
RowsFor(props, rows) ==
  /\ Len(rows) = Len(props)
  /\ \A i \in 1..Len(props) :
       /\ rows[i].key = props[i].key
       /\ Humanized(props[i].key, rows[i].label)

\* The value cells of a table, the items of a list.
Children(node) ==
  IF node.node = "Table" THEN [i \in 1..Len(node.rows) |-> node.rows[i].cell]
  ELSE IF node.node = "List" THEN node.items
  ELSE <<>>

\* props without the property of that key.
Without(props, key) ==
  LET keep == {i \in 1..Len(props) : props[i].key # key}
      nth(n) == CHOOSE i \in keep : Cardinality({j \in keep : j < i}) = n - 1
  IN [n \in 1..Cardinality(keep) |-> props[nth(n)]]

\* Every object inside v, found along node, is a Table with a row per key.
RECURSIVE ObjectsAsTables(_, _)
ObjectsAsTables(v, node) ==
  IF v.t = "object"
  THEN /\ node.node = "Table"
       /\ RowsFor(v.props, node.rows)
       /\ \A i \in 1..Len(v.props) : ObjectsAsTables(v.props[i].val, node.rows[i].cell)
  ELSE IF v.t = "array"
  THEN /\ Len(Children(node)) = Len(v.items)
       /\ \A i \in 1..Len(v.items) : ObjectsAsTables(v.items[i], Children(node)[i])
  ELSE TRUE

\* C1: when a value has been rendered, every object inside it, at any depth,
\* is a Table with exactly one row per key of the object, in key order, the
\* label being the key with each underscore replaced by a space; the one key
\* that may have no row is the root object's `_documents`.
C1_ObjectKeysHaveRows ==
  Rendered =>
    IF data.t = "object"
    THEN /\ view.node = "Table"
         /\ \E shown \in {data.props, Without(data.props, DOCUMENTS)} :
              /\ RowsFor(shown, view.rows)
              /\ \A i \in 1..Len(shown) :
                   ObjectsAsTables(shown[i].val, view.rows[i].cell)
    ELSE ObjectsAsTables(data, view)

\* A root whose `_documents` row was removed, beside a nested object that
\* keeps its own `_documents` row under a humanized key.
C1_Witness ==
  /\ Rendered
  /\ data.t = "object"
  /\ HasKey(data.props, DOCUMENTS)
  /\ Len(view.rows) < Len(data.props)
  /\ \E i \in 1..Len(view.rows) :
       /\ view.rows[i].key = UNDERSCORED
       /\ view.rows[i].label = <<" ", "x", " ">>
       /\ view.rows[i].cell.node = "Table"
       /\ \E j \in 1..Len(view.rows[i].cell.rows) :
            view.rows[i].cell.rows[j].key = DOCUMENTS

\* C2: whenever the rendered root is an object holding the key `_documents`,
\* whatever its value, the top-level table has no row for `_documents` and
\* one row for every other root key.
C2_DocumentsRowRemoved ==
  (Rendered /\ data.t = "object" /\ HasKey(data.props, DOCUMENTS)) =>
    /\ view.node = "Table"
    /\ RowsFor(Without(data.props, DOCUMENTS), view.rows)

\* The leaves of an object in the depth-first traversal in key order, each
\* with its dotted path: a nested non-array object contributes its own
\* leaves, anything else is a leaf.
RECURSIVE LeafSeq(_, _)
LeafSeq(props, prefix) ==
  IF props = <<>> THEN <<>>
  ELSE LET key == props[1].key
           val == props[1].val
           path == IF prefix = <<>> THEN key ELSE prefix \o <<".">> \o key
       IN (IF val.t = "object" THEN LeafSeq(val.props, path)
           ELSE <<Prop(path, val)>>)
          \o LeafSeq(Tail(props), prefix)

\* s cut at each occurrence of the character c.
RECURSIVE Split(_, _)
Split(s, c) ==
  IF \E i \in 1..Len(s) : s[i] = c
  THEN LET at == CHOOSE i \in 1..Len(s) : s[i] = c /\ \A j \in 1..(i - 1) : s[j] # c
       IN <<SubSeq(s, 1, at - 1)>> \o Split(SubSeq(s, at + 1, Len(s)), c)
  ELSE <<s>>

\* The columns of the header line of a CSV text.
HeaderColumns(text) ==
  LET header == Split(text, NEWLINE)[1]
  IN IF header = <<>> THEN {} ELSE {Split(header, ",")[i] : i \in 1..Len(Split(header, ","))}

\* A nested object's `_documents` key has a row like any other.
RECURSIVE NestedDocumentsShown(_, _)
NestedDocumentsShown(v, node) ==
  IF v.t = "object"
  THEN /\ HasKey(v.props, DOCUMENTS) =>
            \E i \in 1..Len(node.rows) :
              node.rows[i].key = DOCUMENTS /\ Humanized(DOCUMENTS, node.rows[i].label)
       /\ \A i \in 1..Len(v.props) :
            NestedDocumentsShown(v.props[i].val, node.rows[i].cell)
  ELSE IF v.t = "array"
  THEN \A i \in 1..Len(v.items) : NestedDocumentsShown(v.items[i], Children(node)[i])
  ELSE TRUE

\* C3: the `_documents` exclusion is the top-level table's only. A nested
\* object's `_documents` key is rendered as a row, and the CSV export filters
\* nothing: every leaf under the root's `_documents` key has its path among
\* the flat entries and among the header's columns.
C3_ExclusionIsTopLevelOnly ==
  /\ (Rendered /\ view.node = "Table" /\ data.t = "object") =>
       \A i \in 1..Len(view.rows) :
         NestedDocumentsShown(GetProp(data.props, view.rows[i].key), view.rows[i].cell)
  /\ (CsvExported /\ data.t = "object" /\ HasKey(data.props, DOCUMENTS)) =>
       LET under == LeafSeq(<<Prop(DOCUMENTS, GetProp(data.props, DOCUMENTS))>>, <<>>)
       IN \A i \in 1..Len(under) :
            /\ HasKey(exported.flatData, under[i].key)
            /\ under[i].key \in HeaderColumns(exported.text)

\* The root's `_documents` was hidden by the table and exported by the CSV,
\* and a nested `_documents` is on display and exported too.
C3_Witness ==
  /\ Rendered /\ CsvExported
  /\ data.t = "object"
  /\ Truthy(GetProp(data.props, DOCUMENTS))
  /\ ~\E i \in 1..Len(view.rows) : view.rows[i].key = DOCUMENTS
  /\ \E i \in 1..Len(view.rows) :
       /\ view.rows[i].cell.node = "Table"
       /\ \E j \in 1..Len(view.rows[i].cell.rows) :
            view.rows[i].cell.rows[j].key = DOCUMENTS
  /\ {DOCUMENTS, UNDERSCORED \o <<".">> \o DOCUMENTS}
       \subseteq HeaderColumns(exported.text)

\* C4: no render, CSV export or JSON export changes the value it is given.
C4_InputNeverMutated == [][data' = data]_vars

\* The table has dropped the root's `_documents` row, an export has run, and
\* the value still holds the key.
C4_Witness ==
  /\ Rendered
  /\ exported.kind # "none"
  /\ data.t = "object"
  /\ HasKey(data.props, DOCUMENTS)
  /\ view.node = "Table"
  /\ ~\E i \in 1..Len(view.rows) : view.rows[i].key = DOCUMENTS

IsScalarValue(v) == v.t \in {"null", "boolean", "number", "string"}

\* The text a scalar is to be shown as.
ScalarText(v) ==
  CASE v.t = "null" -> NA
    [] v.t = "boolean" -> IF v.b THEN YES ELSE NO
    [] v.t = "number" -> NumToStr(v.n)
    [] v.t = "string" -> v.s

\* Every scalar inside v, v itself included, is shown along node as the
\* Scalar of its text.
RECURSIVE ScalarsAsScalars(_, _)
ScalarsAsScalars(v, node) ==
  IF IsScalarValue(v)
  THEN node.node = "Scalar" /\ node.text = ScalarText(v)
  ELSE IF v.t = "array"
  THEN /\ Len(Children(node)) = Len(v.items)
       /\ \A i \in 1..Len(v.items) : ScalarsAsScalars(v.items[i], Children(node)[i])
  ELSE IF v.t = "object"
  THEN /\ node.node = "Table"
       /\ \A i \in 1..Len(node.rows) :
            ScalarsAsScalars(GetProp(v.props, node.rows[i].key), node.rows[i].cell)
  ELSE TRUE

\* C5: a rendered null is Scalar("N/A"), true Scalar("Yes"), false
\* Scalar("No"), a string or number the Scalar of its plain text, wherever the
\* value stands: as a property value, as an array item, or as the value
\* handed to the renderer.
C5_ScalarsRenderEverywhere == Rendered => ScalarsAsScalars(data, view)

\* C6: "no data to display" is the outcome for an absent root value and for
\* no other; every present root value gets the outcome of its own class.
C6_NoDataOnlyWhenAbsent ==
  Rendered =>
    /\ view.node = "NoData" <=> data.t = "undefined"
    /\ IsScalarValue(data) => (view.node = "Scalar" /\ view.text = ScalarText(data))
    /\ data.t = "object" => view.node = "Table"
    /\ data = Obj(<<>>) => view = Table(<<>>)
    /\ data.t = "array" => view.node = "List"

\* Every array inside v, v itself included, is shown along node as a List of
\* one element per item, in order, each element of the item's own class.
RECURSIVE ArraysAsLists(_, _)
ArraysAsLists(v, node) ==
  IF v.t = "array"
  THEN /\ node.node = "List"
       /\ Len(node.items) = Len(v.items)
       /\ \A i \in 1..Len(v.items) :
            /\ node.items[i].node =
                 (CASE v.items[i].t = "array" -> "List"
                    [] v.items[i].t = "object" -> "Table"
                    [] OTHER -> "Scalar")
            /\ IsScalarValue(v.items[i]) => node.items[i].text = ScalarText(v.items[i])
            /\ ArraysAsLists(v.items[i], node.items[i])
  ELSE IF v.t = "object"
  THEN /\ node.node = "Table"
       /\ \A i \in 1..Len(node.rows) :
            ArraysAsLists(GetProp(v.props, node.rows[i].key), node.rows[i].cell)
  ELSE TRUE

\* C7: a rendered array is a List with exactly one element per item, in item
\* order, each the rendering of its item, duplicates and empty items kept,
\* at any position, the value handed to the renderer included.
C7_ArraysRenderAsLists == Rendered => ArraysAsLists(data, view)

\* What a leaf is exported as: an array as one string, a scalar as itself.
IsArrayLeaf(leaf) == leaf.val.t = "array"

\* C8: for a non-array object, the flat mapping holds exactly one entry per
\* leaf position, under the leaf's dotted path and with the leaf's own value:
\* no leaf's entry is lost or overwritten by another's.
C8_OneEntryPerLeaf ==
  (CsvExported /\ data.t = "object") =>
    LET leaves == LeafSeq(data.props, <<>>)
    IN /\ Len(exported.flatData) = Len(leaves)
       /\ \A i \in 1..Len(leaves) :
            /\ HasKey(exported.flatData, leaves[i].key)
            /\ ~IsArrayLeaf(leaves[i]) =>
                 GetProp(exported.flatData, leaves[i].key) = leaves[i].val

\* C9: for a non-array object, the flat mapping lists its paths in exactly
\* the order of the depth-first traversal in key order, a nested object's
\* leaves standing together at the place of its key.
C9_DepthFirstOrder ==
  (CsvExported /\ data.t = "object") =>
    KeysOf(exported.flatData) = KeysOf(LeafSeq(data.props, <<>>))

\* The text an array's items are joined to: a scalar item its string form,
\* an object or array item its compact JSON text, "; " between them.
ItemsJoined(items) ==
  Join([i \in 1..Len(items) |->
          IF items[i].t \in {"array", "object"} THEN JsonCompact(items[i])
          ELSE ToStr(items[i])], <<";", " ">>)

\* C10: every array the flattener reaches is emitted as exactly one entry at
\* its own path, its value the joined items, and is never expanded: the
\* assignments made are one per leaf, in traversal order.
C10_ArraysCollapse ==
  (CsvExported /\ data.t = "object") =>
    LET leaves == LeafSeq(data.props, <<>>)
    IN /\ Len(exported.log) = Len(leaves)
       /\ \A i \in 1..Len(leaves) :
            IsArrayLeaf(leaves[i]) =>
              /\ exported.log[i] = Prop(leaves[i].key, Str(ItemsJoined(leaves[i].val.items)))
              /\ HasKey(exported.flatData, leaves[i].key)

\* An array of a scalar and an object was exported as the one entry "x; {}".
C10_Witness ==
  /\ CsvExported
  /\ data.t = "object"
  /\ \E i \in 1..Len(data.props) :
       /\ data.props[i].val = Arr(<<Str(<<"x">>), Obj(<<>>)>>)
       /\ GetProp(exported.flatData, data.props[i].key)
            = Str(<<"x", ";", " ", "{", "}">>)

\* The string a scalar is exported as; null has the one sentinel "null".
NullSentinel == <<"n", "u", "l", "l">>
StringForm(v) ==
  CASE v.t = "null" -> NullSentinel
    [] v.t = "boolean" -> IF v.b THEN <<"t", "r", "u", "e">> ELSE <<"f", "a", "l", "s", "e">>
    [] v.t = "number" -> NumToStr(v.n)
    [] v.t = "string" -> v.s

\* s with every double quote doubled, the whole between double quotes.
RECURSIVE Doubled(_)
Doubled(s) ==
  IF s = <<>> THEN <<>>
  ELSE (IF s[1] = "\"" THEN <<"\"", "\"">> ELSE <<s[1]>>) \o Doubled(Tail(s))
Wrapped(s) == <<"\"">> \o Doubled(s) \o <<"\"">>

EndsWith(s, tail) ==
  /\ Len(tail) <= Len(s)
  /\ SubSeq(s, Len(s) - Len(tail) + 1, Len(s)) = tail

C12_CsvIsHeaderNewlineValues ==
  CsvExported =>
    LET flat == exported.flatData
    IN /\ exported.text =
            Join([i \in 1..Len(flat) |-> flat[i].key], <<",">>)
            \o <<"\n">>
            \o Join([i \in 1..Len(flat) |-> Wrapped(StringForm(flat[i].val))], <<",">>)
       /\ flat = <<>> => exported.text = <<"\n">>

\* The value `He said "hi", ok` was written under the unescaped key `",` as
\* the field `"He said ""hi"", ok"`.
C12_Witness ==
  /\ CsvExported
  /\ data = Obj(<<Prop(<<"\"", ",">>, Str(HESAID))>>)
  /\ exported.text =
       <<"\"", ",", "\n",
         "\"", "H", "e", " ", "s", "a", "i", "d", " ", "\"", "\"", "h", "i", "\"", "\"",
         ",", " ", "o", "k", "\"">>

\* The number of newline characters of a text.
RECURSIVE Newlines(_)
Newlines(s) ==
  IF s = <<>> THEN 0 ELSE (IF s[1] = "\n" THEN 1 ELSE 0) + Newlines(Tail(s))

\* C13: the CSV text of every exported object is two lines: it holds exactly
\* one newline character, whatever the keys and the string values of the
\* object hold.
C13_ExactlyTwoLines ==
  (CsvExported /\ data.t = "object") => Newlines(exported.text) = 1

\* v holds no array at any depth.
RECURSIVE ArrayFree(_)
ArrayFree(v) ==
  /\ v.t # "array"
  /\ v.t = "object" => \A i \in 1..Len(v.props) : ArrayFree(v.props[i].val)

JsonExported == exported.kind = "json"

\* C14: for an object holding no array at any depth, the exported JSON file,
\* parsed again and flattened, gives the same entries (paths, values, order)
\* as the object flattened directly.
C14_ExportRoundTripFlattensAlike ==
  (JsonExported /\ data.t = "object" /\ ArrayFree(data)) =>
    flattenObject(JsonParse(FileText(exported.href)), <<>>, EmptyFlat)
      = flattenObject(data, <<>>, EmptyFlat)

\* A nested object whose key and string need escaping was exported, and its
\* file flattens to the one entry of the dotted path.
C14_Witness ==
  /\ JsonExported
  /\ data = Obj(<<Prop(<<"a">>, Obj(<<Prop(<<"a", "\n", "b">>, Str(HESAID))>>))>>)
  /\ flattenObject(JsonParse(FileText(exported.href)), <<>>, EmptyFlat).res
       = <<Prop(<<"a", ".", "a", "\n", "b">>, Str(HESAID))>>

\* C15: rendering any value ends with a display outcome, and the CSV export
\* of any object ends with a CSV text: no operation ends in an error,
\* whatever classes of value the input holds, at any depth.
C15_NoOperationFails ==
  /\ Rendered => view.node \in {"NoData", "Scalar", "List", "Table"}
  /\ (exported # NotExported /\ data.t = "object") =>
       \/ JsonExported
       \/ CsvExported /\ Newlines(exported.text) >= 1

\* C16: while no submit is running, progress is 0: once a submit has ended,
\* however its request was settled, no timer tick sets progress before the
\* next submit starts.
C16_ProgressStaysZeroAfterSubmit == ~isLoading => progress = 0

\* A submit starts, a submit ends.
SubmitStarts == ~isLoading /\ isLoading'
SubmitEnds == isLoading /\ ~isLoading'

\* C17: the page never holds an error message and an analysis result at the
\* same time. Starting a submit clears both, and a submit ends by setting
\* one of them and leaving the other cleared: the result to the parsed body
\* of an ok response, the error on every other outcome.
C17_ErrorAndResultExclusive ==
  /\ [](~(error # Null /\ data # Null))
  /\ [][SubmitStarts => (error' = Null /\ data' = Null)]_vars
  /\ [][SubmitEnds =>
          IF request'.state = "response" /\ request'.ok /\ request'.body = "read"
          THEN data' = request'.json /\ error' = Null
          ELSE data' = Null /\ error' # Null /\ error'.t = "string" /\ error'.s # <<>>]_vars

\* A submit that failed was followed by one that brought a result: the
\* message of the first is gone.
C17_Witness ==
  /\ ~isLoading
  /\ data = Obj(<<Prop(<<"a">>, Num(1))>>)
  /\ error = Null
  /\ intervals # {}

\* C18: every submit that starts ends, with isLoading false, once the network
\* has settled its request and the body read from its response; isLoading is
\* true from the start to that end.
C18_SubmitEndsLoading ==
  /\ [](pc # "idle" => isLoading)
  /\ [](pc = "idle" => ~isLoading)
  /\ (pc # "idle") ~> (pc = "idle" /\ ~isLoading)

\* A submit ended on a response that was not ok and whose body could not be
\* parsed.
C18_Witness ==
  /\ pc = "idle"
  /\ ~isLoading
  /\ request.state = "response"
  /\ ~request.ok
  /\ request.body = "unreadable"
  /\ error # Null

====
